---- MODULE Spec2Model ----
(***************************************************************************)
(* Model of mic (src/src/main.rs): clone a mounted tree with open_tree,    *)
(* optionally setns into another mount namespace, prepare the target       *)
(* directory, attach the clone with move_mount and setns back.             *)
(*                                                                         *)
(* The kernel is modelled by a per-namespace root filesystem (nodes), a    *)
(* per-namespace mount table (mounts, a stack of mount entries per path)   *)
(* and the mount-namespace membership of the calling thread (cur_ns).      *)
(* main is a straight line of steps; pc is its position.  Every system     *)
(* call may fail for reasons outside the model (privilege, ENOMEM), so its *)
(* outcome is a nondeterministic choice wherever the kernel state does not *)
(* decide it.                                                              *)
(***************************************************************************)
EXTENDS Integers, Sequences, FiniteSets

\* Number of invocations of the tool in one behaviour.
MaxRuns == 2

\* Mount namespaces of the host and the paths the arguments range over.
Namespaces == {"host", "ctr"}
Paths == {"/a", "/b"}

\* Permission profile of the target directory (Permissions::from_mode(0o755)).
TargetMode == 493

\* Modes a directory can have before the run or right after mkdir
\* (0o700, 0o755, 0o777 masked by the umask).
DirModes == {448, 493}

\* Values of --mount-namespace: "" (no switch), a namespace file of each
\* namespace, and a path that does not exist.
NsFile == [p \in {"/run/ns/host", "/run/ns/ctr"} |->
             IF p = "/run/ns/host" THEN "host" ELSE "ctr"]
NsArgs == {""} \cup DOMAIN NsFile \cup {"/run/ns/missing"}

\* struct Args
Args == [target : Paths, source : Paths, mount_namespace : NsArgs]

None == "none"

\* No detached tree: the value of source_fd before open_tree returns one.
NoTree == [fs |-> None, path |-> None]

\* Exit status of a process that has not exited.
Running == -1

Node == [kind : {"absent", "file"}, mode : {0}] \cup [kind : {"dir"}, mode : DirModes]
NodeRef == [fs : Namespaces, path : Paths]

VARIABLES
    pc,         \* position in main
    args,       \* parsed command line
    cur_ns,     \* mount namespace the thread is a member of
    nodes,      \* nodes[ns][p]: the node at path p of the root filesystem of ns
    mounts,     \* mounts[ns][p]: stack of mounts at p in ns (last = topmost)
    source_fd,  \* detached clone returned by open_tree, or NoTree
    orig_ns,    \* namespace the orig_ns file refers to, or None
    ns_file,    \* namespace the ns_file refers to, or None
    status,     \* exit status of the process, Running before it exits
    diag,       \* lines written to stderr by this run
    trace,      \* operations attempted by this run, in order
    runs,       \* number of invocations so far
    entry,      \* kernel state when this run started
    prev        \* whether the previous run succeeded with the same arguments
                \* from the same namespace,
                \* and the number of mounts at its attach point when it started

vars == <<pc, args, cur_ns, nodes, mounts, source_fd, orig_ns, ns_file,
          status, diag, trace, runs, entry, prev>>

Last(s) == s[Len(s)]

\* Path lookup in namespace ns under the mount tables mt: the root of the
\* topmost mount at p if there is one, otherwise the node of the
\* namespace's own filesystem.
ResolveIn(mt, ns, p) ==
    IF mt[ns][p] # <<>> THEN Last(mt[ns][p]) ELSE [fs |-> ns, path |-> p]

Resolve(ns, p) == ResolveIn(mounts, ns, p)

NodeAt(ref) == nodes[ref.fs][ref.path]

\* Path::exists / Path::is_dir
exists(ns, p) == NodeAt(Resolve(ns, p)).kind # "absent"
is_dir(ns, p) == NodeAt(Resolve(ns, p)).kind = "dir"

\* NextPc with the restore skipped when no switch was requested.
NextPc_RestoreOnlyIfSwitched(p) ==
    CASE p = "check_target" -> "check_source"
      [] p = "check_source" -> "open_tree"
      [] p = "open_tree" -> "open_orig_ns"
      [] p = "open_orig_ns" ->
            IF args.mount_namespace # "" THEN "open_ns" ELSE "create_dir_all"
      [] p = "open_ns" -> "setns"
      [] p = "setns" -> "create_dir_all"
      [] p = "create_dir_all" -> "set_permissions"
      [] p = "set_permissions" -> "move_mount"
      [] p = "move_mount" ->
            IF args.mount_namespace # "" THEN "setns_restore" ELSE "return"
      [] p = "setns_restore" -> "return"

\* NextPc with the attach repeated once.
NextPc_AttachTwice(p) ==
    CASE p = "check_target" -> "check_source"
      [] p = "check_source" -> "open_tree"
      [] p = "open_tree" -> "open_orig_ns"
      [] p = "open_orig_ns" ->
            IF args.mount_namespace # "" THEN "open_ns" ELSE "create_dir_all"
      [] p = "open_ns" -> "setns"
      [] p = "setns" -> "create_dir_all"
      [] p = "create_dir_all" -> "set_permissions"
      [] p = "set_permissions" -> "move_mount"
      [] p = "move_mount" ->
            IF \E i \in 1..Len(trace) : trace[i].op = "move_mount"
            THEN "setns_restore" ELSE "move_mount"
      [] p = "setns_restore" -> "return"

\* NextPc with the original namespace captured ahead of the clone.
NextPc_CaptureBeforeClone(p) ==
    CASE p = "check_target" -> "check_source"
      [] p = "check_source" -> "open_orig_ns"
      [] p = "open_orig_ns" -> "open_tree"
      [] p = "open_tree" ->
            IF args.mount_namespace # "" THEN "open_ns" ELSE "create_dir_all"
      [] p = "open_ns" -> "setns"
      [] p = "setns" -> "create_dir_all"
      [] p = "create_dir_all" -> "set_permissions"
      [] p = "set_permissions" -> "move_mount"
      [] p = "move_mount" -> "setns_restore"
      [] p = "setns_restore" -> "return"

\* NextPc with the namespace switch placed ahead of the clone.
NextPc_SwitchBeforeClone(p) ==
    CASE p = "check_target" -> "check_source"
      [] p = "check_source" -> "open_orig_ns"
      [] p = "open_orig_ns" ->
            IF args.mount_namespace # "" THEN "open_ns" ELSE "open_tree"
      [] p = "open_ns" -> "setns"
      [] p = "setns" -> "open_tree"
      [] p = "open_tree" -> "create_dir_all"
      [] p = "create_dir_all" -> "set_permissions"
      [] p = "set_permissions" -> "move_mount"
      [] p = "move_mount" -> "setns_restore"
      [] p = "setns_restore" -> "return"

\* Order of the statements of main.
NextPc(p) ==
    CASE p = "check_target" -> "check_source"
      [] p = "check_source" -> "open_tree"
      [] p = "open_tree" -> "open_orig_ns"
      [] p = "open_orig_ns" ->
            IF args.mount_namespace # "" THEN "open_ns" ELSE "create_dir_all"
      [] p = "open_ns" -> "setns"
      [] p = "setns" -> "create_dir_all"
      [] p = "create_dir_all" -> "set_permissions"
      [] p = "set_permissions" -> "move_mount"
      [] p = "move_mount" -> "setns_restore"
      [] p = "setns_restore" -> "return"

\* eprintln!(...); process::exit(1)
Fail(msg) ==
    /\ pc' = "exited"
    /\ status' = 1
    /\ diag' = Append(diag, msg)

\* The step succeeded: fall through to the next statement.
Continue ==
    /\ pc' = NextPc(pc)
    /\ UNCHANGED <<status, diag>>

\* Outcome with the error reported but the process not terminated.
Outcome_NoExit(ok) ==
    /\ trace' = Append(trace, [op |-> pc, ok |-> ok])
    /\ pc' = NextPc(pc)
    /\ diag' = IF ok THEN diag ELSE Append(diag, pc)
    /\ UNCHANGED status

\* The statement at pc was executed with result ok: an error is reported
\* and ends the process, a success goes on to the next statement.
Outcome(ok) ==
    /\ trace' = Append(trace, [op |-> pc, ok |-> ok])
    /\ IF ok THEN Continue ELSE Fail(pc)

NoPrev == [same |-> FALSE, count |-> 0]

Init ==
    /\ pc = "check_target"
    /\ args \in Args
    /\ cur_ns \in Namespaces
    /\ nodes \in [Namespaces -> [Paths -> Node]]
    /\ mounts = [n \in Namespaces |-> [p \in Paths |-> <<>>]]
    /\ source_fd = NoTree
    /\ orig_ns = None
    /\ ns_file = None
    /\ status = Running
    /\ diag = <<>>
    /\ trace = <<>>
    /\ runs = 1
    /\ entry = [ns |-> cur_ns, nodes |-> nodes, mounts |-> mounts]
    /\ prev = NoPrev

\* CheckTarget looking the target up in the namespace named by the
\* argument instead of the namespace the thread is a member of.
CheckTarget_InTargetNs ==
    /\ pc = "check_target"
    /\ LET ns == IF args.mount_namespace \in DOMAIN NsFile
                 THEN NsFile[args.mount_namespace] ELSE cur_ns
       IN Outcome(~(~exists(ns, args.target) \/ ~is_dir(ns, args.target)))
    /\ UNCHANGED <<args, cur_ns, nodes, mounts, source_fd, orig_ns, ns_file,
                   runs, entry, prev>>

\* Lines 28-36: the target must exist and be a directory.
CheckTarget ==
    /\ pc = "check_target"
    /\ Outcome(~(~exists(cur_ns, args.target) \/ ~is_dir(cur_ns, args.target)))
    /\ UNCHANGED <<args, cur_ns, nodes, mounts, source_fd, orig_ns, ns_file,
                   runs, entry, prev>>

\* CheckSource without the early exit.
CheckSource_NoExit ==
    /\ pc = "check_source"
    /\ trace' = Append(trace, [op |-> pc,
                  ok |-> ~(~exists(cur_ns, args.source) \/ ~is_dir(cur_ns, args.source))])
    /\ Continue
    /\ UNCHANGED <<args, cur_ns, nodes, mounts, source_fd, orig_ns, ns_file,
                   runs, entry, prev>>

\* Lines 37-45: the source must exist and be a directory.
CheckSource ==
    /\ pc = "check_source"
    /\ Outcome(~(~exists(cur_ns, args.source) \/ ~is_dir(cur_ns, args.source)))
    /\ UNCHANGED <<args, cur_ns, nodes, mounts, source_fd, orig_ns, ns_file,
                   runs, entry, prev>>

\* OpenTree without OPEN_TREE_CLONE semantics: the mount at the source is
\* taken out of the mount table instead of being cloned.
OpenTree_DetachesSource ==
    /\ pc = "open_tree"
    /\ \E ok \in BOOLEAN :
         /\ Outcome(ok)
         /\ source_fd' = IF ok THEN Resolve(cur_ns, args.source) ELSE source_fd
         /\ mounts' = IF ok /\ mounts[cur_ns][args.source] # <<>>
                      THEN [mounts EXCEPT ![cur_ns][args.source] =
                               SubSeq(@, 1, Len(@) - 1)]
                      ELSE mounts
    /\ UNCHANGED <<args, cur_ns, nodes, orig_ns, ns_file,
                   runs, entry, prev>>

\* Lines 46-56: open_tree(CWD, source, OPEN_TREE_CLONE | AT_RECURSIVE).
\* The clone is a detached mount of what source resolves to in the
\* namespace the thread is a member of; no mount table changes.
OpenTree ==
    /\ pc = "open_tree"
    /\ \E ok \in BOOLEAN :
         /\ Outcome(ok)
         /\ source_fd' = IF ok THEN Resolve(cur_ns, args.source) ELSE source_fd
    /\ UNCHANGED <<args, cur_ns, nodes, mounts, orig_ns, ns_file,
                   runs, entry, prev>>

\* Lines 57-63: File::open("/proc/self/ns/mnt").
OpenOrigNs ==
    /\ pc = "open_orig_ns"
    /\ \E ok \in BOOLEAN :
         /\ Outcome(ok)
         /\ orig_ns' = IF ok THEN cur_ns ELSE orig_ns
    /\ UNCHANGED <<args, cur_ns, nodes, mounts, source_fd, ns_file,
                   runs, entry, prev>>

\* Lines 66-76: File::open(&args.mount_namespace), reached only when the
\* argument is not empty.  A path that does not exist cannot be opened.
OpenNs ==
    /\ pc = "open_ns"
    /\ \E res \in BOOLEAN :
         LET ok == res /\ args.mount_namespace \in DOMAIN NsFile
         IN /\ Outcome(ok)
            /\ ns_file' = IF ok THEN NsFile[args.mount_namespace] ELSE ns_file
    /\ UNCHANGED <<args, cur_ns, nodes, mounts, source_fd, orig_ns,
                   runs, entry, prev>>

\* SetNs with ns_file declared outside the block, so that it lives on.
SetNs_HandleKept ==
    /\ pc = "setns"
    /\ \E ok \in BOOLEAN :
         /\ Outcome(ok)
         /\ cur_ns' = IF ok THEN ns_file ELSE cur_ns
    /\ UNCHANGED <<args, nodes, mounts, source_fd, orig_ns, ns_file,
                   runs, entry, prev>>

\* Lines 77-82: setns(&ns_file, CLONE_NEWNS); ns_file is dropped at the
\* end of the block.
SetNs ==
    /\ pc = "setns"
    /\ \E ok \in BOOLEAN :
         /\ Outcome(ok)
         /\ cur_ns' = IF ok THEN ns_file ELSE cur_ns
         /\ ns_file' = IF ok THEN None ELSE ns_file
    /\ UNCHANGED <<args, nodes, mounts, source_fd, orig_ns,
                   runs, entry, prev>>

\* Lines 84-88: std::fs::create_dir_all(target).  An existing directory is
\* left alone, a missing one is created with the mode the umask leaves,
\* a non-directory in the way is an error.
CreateDirAll ==
    /\ pc = "create_dir_all"
    /\ LET ref == Resolve(cur_ns, args.target)
           kind == NodeAt(ref).kind
       IN \E res \in BOOLEAN :
            LET ok == res /\ kind # "file"
            IN /\ Outcome(ok)
               /\ IF ok /\ kind = "absent"
                  THEN \E m \in DirModes :
                         nodes' = [nodes EXCEPT ![ref.fs][ref.path] =
                                      [kind |-> "dir", mode |-> m]]
                  ELSE UNCHANGED nodes
    /\ UNCHANGED <<args, cur_ns, mounts, source_fd, orig_ns, ns_file,
                   runs, entry, prev>>

\* SetPermissions applied only to a directory this run had to create.
SetPermissions_OnlyIfCreated ==
    /\ pc = "set_permissions"
    /\ LET ref == Resolve(cur_ns, args.target)
       IN \E res \in BOOLEAN :
            LET ok == res /\ NodeAt(ref).kind # "absent"
            IN /\ Outcome(ok)
               /\ nodes' = IF ok /\ entry.nodes[ref.fs][ref.path].kind = "absent"
                           THEN [nodes EXCEPT ![ref.fs][ref.path].mode = TargetMode]
                           ELSE nodes
    /\ UNCHANGED <<args, cur_ns, mounts, source_fd, orig_ns, ns_file,
                   runs, entry, prev>>

\* SetPermissions with the result of set_permissions discarded.
SetPermissions_ErrorIgnored ==
    /\ pc = "set_permissions"
    /\ LET ref == Resolve(cur_ns, args.target)
       IN \E res \in BOOLEAN :
            LET ok == res /\ NodeAt(ref).kind # "absent"
            IN /\ trace' = Append(trace, [op |-> pc, ok |-> ok])
               /\ Continue
               /\ nodes' = IF ok
                           THEN [nodes EXCEPT ![ref.fs][ref.path].mode = TargetMode]
                           ELSE nodes
    /\ UNCHANGED <<args, cur_ns, mounts, source_fd, orig_ns, ns_file,
                   runs, entry, prev>>

\* SetPermissions leaving the mode as it is.
SetPermissions_ModeKept ==
    /\ pc = "set_permissions"
    /\ \E res \in BOOLEAN :
         Outcome(res /\ exists(cur_ns, args.target))
    /\ UNCHANGED <<args, cur_ns, nodes, mounts, source_fd, orig_ns, ns_file,
                   runs, entry, prev>>

\* Lines 90-96: std::fs::set_permissions(target, from_mode(0o755)).
SetPermissions ==
    /\ pc = "set_permissions"
    /\ LET ref == Resolve(cur_ns, args.target)
       IN \E res \in BOOLEAN :
            LET ok == res /\ NodeAt(ref).kind # "absent"
            IN /\ Outcome(ok)
               /\ nodes' = IF ok
                           THEN [nodes EXCEPT ![ref.fs][ref.path].mode = TargetMode]
                           ELSE nodes
    /\ UNCHANGED <<args, cur_ns, mounts, source_fd, orig_ns, ns_file,
                   runs, entry, prev>>

\* MoveMount switching back to the original namespace before it reports
\* an error.
MoveMount_RestoresOnError ==
    /\ pc = "move_mount"
    /\ \E res \in BOOLEAN :
         LET ok == res /\ is_dir(cur_ns, args.target)
         IN /\ Outcome(ok)
            /\ mounts' = IF ok
                         THEN [mounts EXCEPT ![cur_ns][args.target] =
                                  Append(@, source_fd)]
                         ELSE mounts
            /\ cur_ns' = IF ok THEN cur_ns ELSE orig_ns
    /\ UNCHANGED <<args, nodes, source_fd, orig_ns, ns_file,
                   runs, entry, prev>>

\* MoveMount with the result of move_mount discarded.
MoveMount_ErrorIgnored ==
    /\ pc = "move_mount"
    /\ \E res \in BOOLEAN :
         LET ok == res /\ is_dir(cur_ns, args.target)
         IN /\ trace' = Append(trace, [op |-> pc, ok |-> ok])
            /\ Continue
            /\ mounts' = IF ok
                         THEN [mounts EXCEPT ![cur_ns][args.target] =
                                  Append(@, source_fd)]
                         ELSE mounts
    /\ UNCHANGED <<args, cur_ns, nodes, source_fd, orig_ns, ns_file,
                   runs, entry, prev>>

\* MoveMount replacing the mount that is already at the target.
MoveMount_ReplaceTop ==
    /\ pc = "move_mount"
    /\ \E res \in BOOLEAN :
         LET ok == res /\ is_dir(cur_ns, args.target)
             old == mounts[cur_ns][args.target]
         IN /\ Outcome(ok)
            /\ mounts' = IF ok
                         THEN [mounts EXCEPT ![cur_ns][args.target] =
                                  IF old = <<>> THEN <<source_fd>>
                                  ELSE [old EXCEPT ![Len(old)] = source_fd]]
                         ELSE mounts
    /\ UNCHANGED <<args, cur_ns, nodes, source_fd, orig_ns, ns_file,
                   runs, entry, prev>>

\* MoveMount attaching in the namespace orig_ns refers to instead of the
\* one the thread is a member of.
MoveMount_InOriginalNs ==
    /\ pc = "move_mount"
    /\ \E res \in BOOLEAN :
         LET ok == res /\ is_dir(orig_ns, args.target)
         IN /\ Outcome(ok)
            /\ mounts' = IF ok
                         THEN [mounts EXCEPT ![orig_ns][args.target] =
                                  Append(@, source_fd)]
                         ELSE mounts
    /\ UNCHANGED <<args, cur_ns, nodes, source_fd, orig_ns, ns_file,
                   runs, entry, prev>>

\* Lines 98-107: move_mount(source_fd, "", CWD, target, F_EMPTY_PATH)
\* attaches the clone on top of whatever is at target in the namespace
\* the thread is a member of.
MoveMount ==
    /\ pc = "move_mount"
    /\ \E res \in BOOLEAN :
         LET ok == res /\ is_dir(cur_ns, args.target)
         IN /\ Outcome(ok)
            /\ mounts' = IF ok
                         THEN [mounts EXCEPT ![cur_ns][args.target] =
                                  Append(@, source_fd)]
                         ELSE mounts
    /\ UNCHANGED <<args, cur_ns, nodes, source_fd, orig_ns, ns_file,
                   runs, entry, prev>>

\* RestoreNs with the result of setns discarded.
RestoreNs_ErrorIgnored ==
    /\ pc = "setns_restore"
    /\ \E ok \in BOOLEAN :
         /\ trace' = Append(trace, [op |-> pc, ok |-> ok])
         /\ Continue
         /\ cur_ns' = IF ok THEN orig_ns ELSE cur_ns
    /\ UNCHANGED <<args, nodes, mounts, source_fd, orig_ns, ns_file,
                   runs, entry, prev>>

\* RestoreNs without the setns call.
RestoreNs_Omitted ==
    /\ pc = "setns_restore"
    /\ Outcome(TRUE)
    /\ UNCHANGED <<args, cur_ns, nodes, mounts, source_fd, orig_ns, ns_file,
                   runs, entry, prev>>

\* Lines 108-112: setns(&orig_ns, CLONE_NEWNS).
RestoreNs ==
    /\ pc = "setns_restore"
    /\ \E ok \in BOOLEAN :
         /\ Outcome(ok)
         /\ cur_ns' = IF ok THEN orig_ns ELSE cur_ns
    /\ UNCHANGED <<args, nodes, mounts, source_fd, orig_ns, ns_file,
                   runs, entry, prev>>

\* Line 113: main returns, the process exits with status 0.
Return ==
    /\ pc = "return"
    /\ pc' = "exited"
    /\ status' = 0
    /\ UNCHANGED <<args, cur_ns, nodes, mounts, source_fd, orig_ns, ns_file,
                   diag, trace, runs, entry, prev>>

\* Namespace the attach of a run with arguments a, started in namespace
\* ns, takes place in when every step before it succeeds.
AttachNs(a, ns) ==
    IF a.mount_namespace \in DOMAIN NsFile THEN NsFile[a.mount_namespace] ELSE ns

\* The tool is run again (line 26, Args::parse of a new process): the
\* descriptors of the exited process are gone, the kernel's filesystems
\* and mount tables stay as the previous run left them.
Invoke ==
    /\ pc = "exited"
    /\ runs < MaxRuns
    /\ runs' = runs + 1
    /\ pc' = "check_target"
    /\ args' \in Args
    /\ cur_ns' \in Namespaces
    /\ source_fd' = NoTree
    /\ orig_ns' = None
    /\ ns_file' = None
    /\ status' = Running
    /\ diag' = <<>>
    /\ trace' = <<>>
    /\ entry' = [ns |-> cur_ns', nodes |-> nodes, mounts |-> mounts]
    /\ prev' = IF status = 0 /\ args' = args /\ cur_ns' = entry.ns
               THEN [same |-> TRUE,
                     count |-> Len(entry.mounts[AttachNs(args, entry.ns)][args.target])]
               ELSE NoPrev
    /\ UNCHANGED <<nodes, mounts>>

Next ==
    \/ CheckTarget
    \/ CheckSource
    \/ OpenTree
    \/ OpenOrigNs
    \/ OpenNs
    \/ SetNs
    \/ CreateDirAll
    \/ SetPermissions
    \/ MoveMount
    \/ RestoreNs
    \/ Return
    \/ Invoke

Spec == Init /\ [][Next]_vars

TypeOK ==
    /\ args \in Args
    /\ cur_ns \in Namespaces
    /\ nodes \in [Namespaces -> [Paths -> Node]]
    /\ status \in {Running, 0, 1}
    /\ runs \in 1..MaxRuns

(***************************************************************************)
(* Vocabulary of the properties: what the run has done so far (trace) and  *)
(* what the kernel looked like when it started (entry).                    *)
(***************************************************************************)
Positions(op) == {i \in 1..Len(trace) : trace[i].op = op}
Attempted(op) == Positions(op) # {}
Succeeded(op) == \E i \in Positions(op) : trace[i].ok
Failed(op) == \E i \in Positions(op) : ~trace[i].ok
Before(op1, op2) ==
    \A i \in Positions(op1), j \in Positions(op2) : i < j
Exited == pc = "exited"

\* The steps a run with the current arguments has to go through.
RequiredOps ==
    {"check_target", "check_source", "open_tree", "open_orig_ns",
     "create_dir_all", "set_permissions", "move_mount", "setns_restore"}
    \cup (IF args.mount_namespace # "" THEN {"open_ns", "setns"} ELSE {})

\* Namespace in which the attach of this run takes place.
ActiveAtAttach == AttachNs(args, entry.ns)

\* What the source path showed in the original namespace when the run
\* started, and whether the target path was there.
SourceAtEntry == ResolveIn(entry.mounts, entry.ns, args.source)
KindAtEntry(ns, p) ==
    LET ref == ResolveIn(entry.mounts, ns, p) IN entry.nodes[ref.fs][ref.path].kind

\* C1: in every run in which the switch to the target namespace succeeded
\* and the attach was attempted, the restore (setns to the original
\* namespace) is attempted exactly once, after the attach attempt, whether
\* the attach succeeded or failed.
C1_RestoreAfterEveryAttach ==
    (Exited /\ Succeeded("setns") /\ Attempted("move_mount")) =>
        /\ Cardinality(Positions("setns_restore")) = 1
        /\ Before("move_mount", "setns_restore")

\* C2: the process exits with status 0 if and only if every step of the
\* run succeeded; a failure of any single step, the restore after a
\* successful attach included, yields status 1.
C2_ExitZeroIffEveryStepSucceeded ==
    Exited =>
        /\ status \in {0, 1}
        /\ status = 0 <=> (\A op \in RequiredOps : Succeeded(op))
        /\ (\E i \in 1..Len(trace) : ~trace[i].ok) => status = 1
        /\ (Succeeded("move_mount") /\ Failed("setns_restore")) => status = 1

C2_Witness ==
    /\ Exited
    /\ status = 1
    /\ Succeeded("move_mount")
    /\ Failed("setns_restore")

\* C3: whenever the process exits with status 0, the thread is a member of
\* the mount namespace it was a member of when the run started, with an
\* empty namespace argument and with one that was switched into.
C3_MembershipRestoredOnSuccess ==
    (Exited /\ status = 0) => cur_ns = entry.ns

C3_Witness ==
    /\ Exited
    /\ status = 0
    /\ Succeeded("setns")
    /\ ActiveAtAttach # entry.ns
    /\ cur_ns = entry.ns

\* C4: once the attach has succeeded, the mount table of the namespace
\* active at attach time has exactly one more entry at the target path
\* than when the run started, on top of the earlier ones; the new entry is
\* the clone of what the source path showed in the original namespace; and
\* no other path or namespace has a changed mount table.
C4_AttachAddsOneEntryInActiveNamespace ==
    Succeeded("move_mount") =>
        /\ mounts[ActiveAtAttach][args.target] =
              Append(entry.mounts[ActiveAtAttach][args.target], SourceAtEntry)
        /\ \A n \in Namespaces, p \in Paths :
              (n # ActiveAtAttach \/ p # args.target) =>
                  mounts[n][p] = entry.mounts[n][p]

C4_Witness ==
    /\ Succeeded("move_mount")
    /\ Succeeded("setns")
    /\ ActiveAtAttach # entry.ns
    /\ entry.mounts[ActiveAtAttach][args.target] # <<>>
    /\ mounts[entry.ns] = entry.mounts[entry.ns]

\* C5: the clone of the source tree is taken while the thread is still a
\* member of its original namespace: no setns is performed before the
\* clone step has completed, and the clone is what the source path shows
\* in the original namespace, whatever the namespace argument.
C5_CloneBeforeAnySwitch ==
    /\ Before("open_tree", "setns")
    /\ Before("open_tree", "setns_restore")
    /\ (pc = "open_tree" \/ ~Attempted("open_tree")) =>
          (cur_ns = entry.ns /\ ~Attempted("setns") /\ ~Attempted("setns_restore"))
    /\ Succeeded("open_tree") => source_fd = SourceAtEntry

C5_Witness ==
    /\ Succeeded("open_tree")
    /\ Succeeded("setns")
    /\ cur_ns # entry.ns
    /\ source_fd = SourceAtEntry
    /\ source_fd # Resolve(cur_ns, args.source)

\* C6: the attach is attempted only after every earlier step succeeded; if
\* opening the namespace path, the setns into it, creating the destination
\* directory or its chmod fails, the process exits with status 1,
\* move_mount is never called and no mount table has changed.
C6_AttachOnlyAfterEarlierStepsSucceeded ==
    /\ Attempted("move_mount") =>
          \A op \in RequiredOps \ {"move_mount", "setns_restore"} :
              Succeeded(op) /\ Before(op, "move_mount")
    /\ (Failed("open_ns") \/ Failed("setns") \/ Failed("create_dir_all")
          \/ Failed("set_permissions")) =>
          /\ Exited
          /\ status = 1
          /\ ~Attempted("move_mount")
          /\ mounts = entry.mounts

C6_Witness ==
    /\ Exited
    /\ Succeeded("setns")
    /\ Succeeded("create_dir_all")
    /\ Failed("set_permissions")

\* C7: if the target or the source does not exist or is not a directory
\* (in the namespace the run starts in), the process exits with status 1
\* before any kernel mutation: no clone handle, no namespace handle, no
\* switch, no directory created or chmod-ed, no mount table change.
C7_InvalidPathsExitBeforeAnyMutation ==
    (KindAtEntry(entry.ns, args.target) # "dir"
        \/ KindAtEntry(entry.ns, args.source) # "dir") =>
        /\ pc \in {"check_target", "check_source", "exited"}
        /\ \A i \in 1..Len(trace) : trace[i].op \in {"check_target", "check_source"}
        /\ Exited => status = 1
        /\ source_fd = NoTree
        /\ orig_ns = None
        /\ ns_file = None
        /\ cur_ns = entry.ns
        /\ nodes = entry.nodes
        /\ mounts = entry.mounts

C7_Witness ==
    /\ Exited
    /\ Succeeded("check_target")
    /\ Failed("check_source")
    /\ KindAtEntry(entry.ns, args.source) = "file"

\* C8 as stated: for all inputs where the target path does not exist, the
\* tool creates the target directory with mode 0755 before attaching.
C8_MissingTargetIsCreated ==
    (Exited /\ KindAtEntry(entry.ns, args.target) = "absent") =>
        /\ Succeeded("create_dir_all")
        /\ \E n \in Namespaces :
              /\ entry.nodes[n][args.target].kind = "absent"
              /\ nodes[n][args.target] = [kind |-> "dir", mode |-> TargetMode]

\* C8 as amended: a target path that does not exist in the namespace the
\* run starts in is rejected with status 1 and nothing is created; a
\* target path that is a directory there but does not exist in the
\* namespace switched into is created there and given mode 0755 before
\* the attach is attempted.
C8_MissingTargetCreatedOnlyInSwitchedNamespace ==
    /\ KindAtEntry(entry.ns, args.target) = "absent" =>
          /\ nodes = entry.nodes
          /\ Exited => status = 1
    /\ (Attempted("move_mount")
          /\ KindAtEntry(ActiveAtAttach, args.target) = "absent") =>
          /\ ActiveAtAttach # entry.ns
          /\ nodes[ActiveAtAttach][args.target] =
                [kind |-> "dir", mode |-> TargetMode]
          /\ Succeeded("create_dir_all")
          /\ Succeeded("set_permissions")
          /\ Before("create_dir_all", "move_mount")
          /\ Before("set_permissions", "move_mount")

C8_Witness ==
    /\ Succeeded("move_mount")
    /\ KindAtEntry(entry.ns, args.target) = "dir"
    /\ KindAtEntry(ActiveAtAttach, args.target) = "absent"
    /\ nodes[ActiveAtAttach][args.target].kind = "dir"

\* C9: the tool is not idempotent: when a successful run is followed by a
\* successful run with the same source, target and namespace argument,
\* the target path carries two more mount entries than before the first
\* run; the second entry is stacked on the first, which is still there.
C9_RerunStacksSecondEntry ==
    (Exited /\ status = 0 /\ prev.same) =>
        LET stack == mounts[ActiveAtAttach][args.target]
            atEntry == entry.mounts[ActiveAtAttach][args.target]
        IN /\ Len(atEntry) = prev.count + 1
           /\ Len(stack) = prev.count + 2
           /\ SubSeq(stack, 1, Len(stack) - 1) = atEntry

C9_Witness ==
    /\ Exited
    /\ status = 0
    /\ prev.same
    /\ Len(mounts[ActiveAtAttach][args.target]) = 2

OpsOf(t) == [i \in 1..Len(t) |-> t[i].op]
IsPrefix(s, t) ==
    /\ Len(s) <= Len(t)
    /\ \A i \in 1..Len(s) : s[i] = t[i]
SwitchOps == IF args.mount_namespace # "" THEN <<"open_ns", "setns">> ELSE <<>>
AttachOps == <<"create_dir_all", "set_permissions", "move_mount", "setns_restore">>
KernelOp(e) == e.op \notin {"check_target", "check_source"}

\* C10 as stated: the operations of a run are a prefix of: capture the
\* original namespace, clone the source tree, (if requested) switch,
\* create the directory, chmod it, attach, restore.
C10_CaptureThenCloneOrder ==
    IsPrefix(OpsOf(SelectSeq(trace, KernelOp)),
             <<"open_orig_ns", "open_tree">> \o SwitchOps \o AttachOps)

\* C10 as amended: the operations of a run are a prefix of: check the
\* target, check the source, clone the source tree, capture the original
\* namespace, (if requested) open the namespace path and switch, create
\* the directory, chmod it, attach, restore; the namespace is captured
\* after the clone and before any switch.
C10_CloneThenCaptureOrder ==
    IsPrefix(OpsOf(trace),
             <<"check_target", "check_source", "open_tree", "open_orig_ns">>
                \o SwitchOps \o AttachOps)

C10_Witness ==
    /\ Exited
    /\ status = 0
    /\ Len(trace) = 10
    /\ trace[3].op = "open_tree"
    /\ trace[4].op = "open_orig_ns"

\* Number of mount entries in all mount tables mt.
RECURSIVE SumLen(_, _)
SumLen(mt, keys) ==
    IF keys = {} THEN 0
    ELSE LET k == CHOOSE x \in keys : TRUE
         IN Len(mt[k[1]][k[2]]) + SumLen(mt, keys \ {k})
MountCount(mt) == SumLen(mt, Namespaces \X Paths)

\* C11: at the first step that fails exactly one diagnostic is written, it
\* names that step, and the process terminates there with no later
\* operation; no step is attempted twice; nothing an earlier successful
\* step did (clone handle, namespace switch, created directory) is undone;
\* a successful run writes no diagnostic.
C11_OneDiagnosticAtFirstFailureNoRollback ==
    /\ Len(diag) <= 1
    /\ \A i \in 1..Len(trace) :
          ~trace[i].ok =>
              /\ i = Len(trace)
              /\ Exited
              /\ status = 1
              /\ diag = <<trace[i].op>>
    /\ diag # <<>> => (trace # <<>> /\ ~Last(trace).ok)
    /\ \A i, j \in 1..Len(trace) : trace[i].op = trace[j].op => i = j
    /\ (Exited /\ status = 0) => diag = <<>>
    /\ Succeeded("open_tree") => source_fd = SourceAtEntry
    /\ (Succeeded("setns") /\ ~Succeeded("setns_restore")) =>
          cur_ns = NsFile[args.mount_namespace]
    /\ \A n \in Namespaces, p \in Paths :
          entry.nodes[n][p].kind = "dir" => nodes[n][p].kind = "dir"
    /\ Succeeded("create_dir_all") =>
          LET ref == ResolveIn(entry.mounts, ActiveAtAttach, args.target)
          IN nodes[ref.fs][ref.path].kind = "dir"

C11_Witness ==
    /\ Exited
    /\ Failed("move_mount")
    /\ diag = <<"move_mount">>
    /\ Succeeded("setns")
    /\ cur_ns # entry.ns
    /\ KindAtEntry(ActiveAtAttach, args.target) = "absent"
    /\ nodes[ActiveAtAttach][args.target].kind = "dir"

\* C12: as long as the attach of a run has not succeeded, whatever step
\* the run stops at, the mount table of every namespace is what it was
\* when the run started: cloning the source and switching namespace add,
\* remove or move no mount entry; and the entries present when the run
\* started, the one at the source included, stay where they are in every
\* run.
C12_MountTablesUntouchedBeforeAttach ==
    /\ ~Succeeded("move_mount") => mounts = entry.mounts
    /\ \A n \in Namespaces, p \in Paths :
          IsPrefix(entry.mounts[n][p], mounts[n][p])

C12_Witness ==
    /\ Exited
    /\ Failed("move_mount")
    /\ Succeeded("setns")
    /\ entry.mounts[entry.ns][args.source] # <<>>
    /\ mounts = entry.mounts

\* C13: the cloned mount handle is passed to move_mount at most once in
\* any run and exactly once, successfully, in a run that exits with status
\* 0; a run adds at most one entry to the mount tables as a whole.
C13_HandleAttachedAtMostOnce ==
    /\ Cardinality(Positions("move_mount")) <= 1
    /\ (Exited /\ status = 0) =>
          (Cardinality(Positions("move_mount")) = 1 /\ Succeeded("move_mount"))
    /\ MountCount(mounts) <= MountCount(entry.mounts) + 1
    /\ MountCount(mounts) = MountCount(entry.mounts)
          + (IF Succeeded("move_mount") THEN 1 ELSE 0)

C13_Witness ==
    /\ Exited
    /\ status = 0
    /\ MountCount(mounts) = MountCount(entry.mounts) + 1
    /\ MountCount(entry.mounts) = 1

\* The node the target path denotes in the namespace of the attach, below
\* whatever this run mounts there.
TargetRefAtAttach == ResolveIn(entry.mounts, ActiveAtAttach, args.target)

\* C14: whenever the attach is attempted, the destination is a directory
\* of the namespace the thread is then a member of and its permission bits
\* are exactly 0755, whatever they were before the run (the chmod is
\* applied to a directory that was already there as well), and a chmod
\* failure prevents the attach.
C14_TargetIs0755WhenAttachAttempted ==
    /\ pc = "move_mount" =>
          /\ cur_ns = ActiveAtAttach
          /\ Resolve(cur_ns, args.target) = TargetRefAtAttach
    /\ (pc = "move_mount" \/ Attempted("move_mount")) =>
          /\ Succeeded("set_permissions")
          /\ Before("set_permissions", "move_mount")
          /\ nodes[TargetRefAtAttach.fs][TargetRefAtAttach.path] =
                [kind |-> "dir", mode |-> TargetMode]
    /\ Failed("set_permissions") => (Exited /\ ~Attempted("move_mount"))

C14_Witness ==
    /\ Attempted("move_mount")
    /\ entry.nodes[TargetRefAtAttach.fs][TargetRefAtAttach.path] =
          [kind |-> "dir", mode |-> 448]
    /\ nodes[TargetRefAtAttach.fs][TargetRefAtAttach.path].mode = TargetMode

\* C15: the restore can fail only after a successful attach: whenever the
\* restore diagnostic has been written, the clone is mounted on top of the
\* target path, the process has exited with status 1, and the thread is
\* still a member of the namespace it attached in (the target namespace
\* if a switch was made).
C15_RestoreFailureOnlyAfterAttach ==
    (Failed("setns_restore") \/ (diag # <<>> /\ diag[1] = "setns_restore")) =>
        /\ Succeeded("move_mount")
        /\ Before("move_mount", "setns_restore")
        /\ mounts[ActiveAtAttach][args.target] # <<>>
        /\ Last(mounts[ActiveAtAttach][args.target]) = source_fd
        /\ Exited
        /\ status = 1
        /\ diag = <<"setns_restore">>
        /\ cur_ns = ActiveAtAttach
        /\ Succeeded("setns") => cur_ns = NsFile[args.mount_namespace]

C15_Witness ==
    /\ Exited
    /\ Failed("setns_restore")
    /\ Succeeded("setns")
    /\ cur_ns # entry.ns
    /\ Len(mounts[cur_ns][args.target]) = 1

\* C16: the handle on the original namespace is opened before any switch
\* and is open in every state from then on, through the restore; the
\* handle on the target namespace is open only across the setns and is
\* released before the destination is prepared, while the membership in
\* the target namespace lasts through the attach.
C16_NamespaceHandleLifetimes ==
    /\ Before("open_orig_ns", "setns")
    /\ Attempted("setns") => Succeeded("open_orig_ns")
    /\ orig_ns = (IF Succeeded("open_orig_ns") THEN entry.ns ELSE None)
    /\ ns_file # None =>
          /\ Succeeded("open_ns")
          /\ ns_file = NsFile[args.mount_namespace]
          /\ pc = "setns" \/ (Exited /\ Failed("setns"))
    /\ pc \in {"create_dir_all", "set_permissions", "move_mount",
               "setns_restore", "return"} =>
          /\ ns_file = None
          /\ orig_ns = entry.ns
    /\ (Succeeded("setns")
          /\ pc \in {"create_dir_all", "set_permissions", "move_mount",
                     "setns_restore"}) =>
          cur_ns = NsFile[args.mount_namespace]

C16_Witness ==
    /\ pc = "setns_restore"
    /\ Succeeded("setns")
    /\ cur_ns # entry.ns
    /\ ns_file = None
    /\ orig_ns = entry.ns

\* C17: if the switch into the target namespace succeeded and a later
\* step (directory creation, chmod or attach) fails, the process exits
\* with status 1 without any restore attempt and the thread is still a
\* member of the target namespace; the restore step is reached only when
\* the attach succeeded.
C17_NoRestoreAfterLateFailure ==
    /\ (Succeeded("setns")
          /\ (Failed("create_dir_all") \/ Failed("set_permissions")
                \/ Failed("move_mount"))) =>
          /\ Exited
          /\ status = 1
          /\ ~Attempted("setns_restore")
          /\ cur_ns = NsFile[args.mount_namespace]
    /\ (pc = "setns_restore" \/ Attempted("setns_restore")) =>
          Succeeded("move_mount")

C17_Witness ==
    /\ Exited
    /\ status = 1
    /\ Succeeded("setns")
    /\ Failed("create_dir_all")
    /\ cur_ns # entry.ns
    /\ ~Attempted("setns_restore")

\* C18: the restore does not depend on a switch having happened: with an
\* empty namespace argument no switch is made, the restore is still
\* attempted once after a successful attach, the membership is the
\* original one whether it succeeds or fails, and when it fails the run
\* exits with status 1 although the mount is attached.
C18_RestoreAttemptedWithoutSwitch ==
    args.mount_namespace = "" =>
        /\ ~Attempted("open_ns")
        /\ ~Attempted("setns")
        /\ cur_ns = entry.ns
        /\ Succeeded("move_mount") =>
              \/ pc = "setns_restore"
              \/ Cardinality(Positions("setns_restore")) = 1
        /\ (Exited /\ status = 0) => Succeeded("setns_restore")
        /\ Failed("setns_restore") =>
              /\ Exited
              /\ status = 1
              /\ mounts[entry.ns][args.target] =
                    Append(entry.mounts[entry.ns][args.target], source_fd)

C18_Witness ==
    /\ args.mount_namespace = ""
    /\ Exited
    /\ Failed("setns_restore")
    /\ cur_ns = entry.ns
    /\ mounts[entry.ns][args.target] # <<>>

\* C19: with a switch, the target path is validated in the original
\* namespace and prepared in the target namespace: the existence and
\* directory check is decided by the original namespace before the switch,
\* directory creation, chmod and attach act in the namespace switched
\* into; so a target path absent in the original namespace is rejected
\* with status 1 even if it is a directory in the target namespace, and a
\* target path that is a directory in the original namespace but absent in
\* the target namespace is created there and has mode 0755 when the
\* attach is attempted.
C19_ValidatedInOriginalPreparedInTarget ==
    /\ Attempted("check_target") =>
          /\ trace[1].op = "check_target"
          /\ trace[1].ok = (KindAtEntry(entry.ns, args.target) = "dir")
    /\ pc \in {"check_target", "check_source"} => cur_ns = entry.ns
    /\ pc \in {"create_dir_all", "set_permissions", "move_mount"} =>
          cur_ns = ActiveAtAttach
    /\ KindAtEntry(entry.ns, args.target) = "absent" =>
          /\ nodes = entry.nodes
          /\ Exited => (status = 1 /\ Failed("check_target"))
    /\ (KindAtEntry(ActiveAtAttach, args.target) = "absent"
          /\ Succeeded("create_dir_all")) =>
          /\ KindAtEntry(entry.ns, args.target) = "dir"
          /\ nodes[ActiveAtAttach][args.target].kind = "dir"
          /\ nodes[entry.ns][args.target].kind = "dir"
    /\ (KindAtEntry(ActiveAtAttach, args.target) = "absent"
          /\ (pc = "move_mount" \/ Attempted("move_mount"))) =>
          nodes[ActiveAtAttach][args.target] = [kind |-> "dir", mode |-> TargetMode]

C19_Witness ==
    /\ Exited
    /\ status = 1
    /\ Failed("check_target")
    /\ args.mount_namespace \in DOMAIN NsFile
    /\ KindAtEntry(entry.ns, args.target) = "absent"
    /\ KindAtEntry(NsFile[args.mount_namespace], args.target) = "dir"
====
